---------------------------- MODULE Spec2Model ----------------------------
(***************************************************************************)
(* Model of sightglass' effect-size analysis:                              *)
(*   crates/analysis/src/effect_size.rs   calculate, write                 *)
(*   crates/data/src/lib.rs               Measurement, Summary,            *)
(*                                        EngineResult, EffectSize         *)
(*                                                                         *)
(* Strings are sequences of characters; a character has a code point (the  *)
(* order of str comparison) and a UTF-8 length (the unit of the byte       *)
(* offsets char_indices yields).  An f64 is modelled as an exact rational  *)
(* [k |-> "fin", n, d] (n/d, d > 0), an infinity [k |-> "inf", n |-> +-1]  *)
(* or a NaN [k |-> "nan"]; rounding is not modelled.                       *)
(***************************************************************************)
EXTENDS Integers, Sequences, FiniteSets, TLC

VARIABLES
    measurements,        \* calculate: the `measurements` slice
    significance_level,  \* calculate/write: the parameter, in hundredths
    pc,                  \* position of the running call
    keys,                \* calculate: keys the `for` loop has not visited yet
    results,             \* calculate: the `results` vector being built
    returned,            \* calculate: the value handed to the caller
    error,               \* the error or panic that ended the running call
    effect_sizes,        \* write: the `effect_sizes` vector (sorted in place)
    input_order,         \* write: effect_sizes as passed in, before the sort
    summaries,           \* write: the `summaries` slice
    entry,               \* write: index of the entry the `for` loop is at
    output,              \* write: the lines written to output_file so far
    a_summary,           \* write: summaries picked for engine A, per entry
    b_summary,           \* write: summaries picked for engine B, per entry
    sig_in,              \* is_significant harness: the EffectSize under test
    sig_out,             \* is_significant harness: the value returned
    trim_in,             \* prefix harness: the two engine strings
    trim_out             \* prefix harness: the two displayed names

vars == <<measurements, significance_level, pc, keys, results, returned, error,
          effect_sizes, input_order, summaries, entry, output, a_summary,
          b_summary, sig_in, sig_out, trim_in, trim_out>>

-----------------------------------------------------------------------------
(* Bounds of the model.                                                    *)

\* Largest half-width the significance test may return for samples with scatter.
MaxHalfWidth == 2

\* Longest effect-size list handed to write directly.
MaxEffects == 3

\* Longest engine string handed to the prefix trimming.
MaxStrLen == 3

\* Largest numerator of a mean or half-width handed to is_significant.
MaxNumerator == 3

-----------------------------------------------------------------------------
(* Strings.                                                                *)

Alphabet == {"a", "b", "U+00E9"}

\* Unicode scalar value: str's Ord is the order of the UTF-8 bytes, which is
\* the order of the scalar values.
CodePoint(c) ==
    CASE c = "a" -> 97
      [] c = "b" -> 98
      [] c = "c" -> 99
      [] c = "f" -> 102
      [] c = "w" -> 119
      [] c = "x" -> 120
      [] c = "U+00E9" -> 233
      [] OTHER -> 0

\* Number of bytes of the character's UTF-8 encoding.
Utf8Len(c) == IF CodePoint(c) < 128 THEN 1 ELSE 2

Min(x, y) == IF x <= y THEN x ELSE y

\* <str as Ord>::cmp(s, t) = Less
StrLess(s, t) ==
    \/ \E i \in 1..Min(Len(s), Len(t)) :
          /\ \A j \in 1..(i - 1) : s[j] = t[j]
          /\ CodePoint(s[i]) < CodePoint(t[i])
    \/ /\ Len(s) < Len(t)
       /\ \A j \in 1..Len(s) : s[j] = t[j]

\* <(&str, &str) as Ord>::cmp(p, q) = Less
PairLess(p, q) ==
    \/ StrLess(p[1], q[1])
    \/ p[1] = q[1] /\ StrLess(p[2], q[2])

-----------------------------------------------------------------------------
(* f64.                                                                    *)

Fin(n, d) == [k |-> "fin", n |-> n, d |-> d]
Inf(s) == [k |-> "inf", n |-> s, d |-> 0]
NaN == [k |-> "nan", n |-> 0, d |-> 0]

FFromInt(i) == Fin(i, 1)

IsNaN(x) == x.k = "nan"

Sign(i) == IF i > 0 THEN 1 ELSE IF i < 0 THEN -1 ELSE 0

\* x < y on f64: false when either is NaN.
FLt(x, y) ==
    CASE IsNaN(x) \/ IsNaN(y) -> FALSE
      [] x.k = "fin" /\ y.k = "fin" -> x.n * y.d < y.n * x.d
      [] x.k = "inf" /\ y.k = "inf" -> x.n < y.n
      [] x.k = "inf" -> x.n < 0
      [] OTHER -> y.n > 0

FGt(x, y) == FLt(y, x)

\* x == y on f64: false when either is NaN.
FEq(x, y) == ~IsNaN(x) /\ ~IsNaN(y) /\ ~FLt(x, y) /\ ~FLt(y, x)

\* -x
FNeg(x) == [x EXCEPT !.n = -x.n]

\* x + y: inf + (-inf) is NaN.
FAdd(x, y) ==
    CASE IsNaN(x) \/ IsNaN(y) -> NaN
      [] x.k = "fin" /\ y.k = "fin" -> Fin(x.n * y.d + y.n * x.d, x.d * y.d)
      [] x.k = "inf" /\ y.k = "inf" -> IF x.n = y.n THEN x ELSE NaN
      [] x.k = "inf" -> x
      [] OTHER -> y

\* x - y
FSub(x, y) == FAdd(x, FNeg(y))

\* f64::abs
FAbs(x) ==
    CASE x.k = "fin" -> Fin(IF x.n < 0 THEN -x.n ELSE x.n, x.d)
      [] x.k = "inf" -> Inf(1)
      [] OTHER -> NaN

\* x / y for finite operands: x/0 is an infinity, 0/0 is NaN.
FDiv(x, y) ==
    IF y.n = 0
    THEN IF x.n = 0 THEN NaN ELSE Inf(Sign(x.n))
    ELSE Fin(Sign(y.n) * x.n * y.d, Sign(y.n) * y.n * x.d)

\* f64::max: the other operand when one is NaN.
FMax(x, y) ==
    IF IsNaN(x) THEN y
    ELSE IF IsNaN(y) THEN x
    ELSE IF FLt(x, y) THEN y ELSE x

\* f64::partial_cmp: "None" when either operand is NaN.
PartialCmp(x, y) ==
    IF IsNaN(x) \/ IsNaN(y) THEN "None"
    ELSE IF FLt(x, y) THEN "Less"
    ELSE IF FLt(y, x) THEN "Greater"
    ELSE "Equal"

-----------------------------------------------------------------------------
(* Data definitions.                                                       *)

\* #[derive(PartialOrd, Ord)] on Phase: declaration order.
PhaseRank(p) ==
    CASE p = "Compilation" -> 0
      [] p = "Instantiation" -> 1
      [] OTHER -> 2

Measurement(arch, engine, engine_flags, wasm, phase, event, count) ==
    [arch |-> arch, engine |-> engine, engine_flags |-> engine_flags,
     wasm |-> wasm, phase |-> phase, event |-> event, count |-> count]

\* Measurement::engine_and_flags
engine_and_flags(m) == <<m.engine, m.engine_flags>>

\* is_significant with an inclusive boundary (>= for >).
is_significant_inclusive(es) ==
    ~FLt(FAbs(FSub(es.a_results.mean, es.b_results.mean)),
         FAbs(es.half_width_confidence_interval))

\* EffectSize::is_significant
is_significant(es) ==
    FGt(FAbs(FSub(es.a_results.mean, es.b_results.mean)),
        FAbs(es.half_width_confidence_interval))

\* EffectSize::b_speed_up_over_a, first component
b_speed_up_over_a(es) == FDiv(es.b_results.mean, es.a_results.mean)

\* EffectSize::a_speed_up_over_b, first component
a_speed_up_over_b(es) == FDiv(es.a_results.mean, es.b_results.mean)


-----------------------------------------------------------------------------
(* Inputs of calculate.                                                    *)

ArchArm == <<"a">>
ArchX86 == <<"x">>
Wasm1 == <<"w">>
EventCycles == <<"c">>

\* Two groups that differ in arch alone.
Key(arch, wasm, phase, event) ==
    [arch |-> arch, wasm |-> wasm, phase |-> phase, event |-> event]

GroupKeys == <<Key(ArchArm, Wasm1, "Execution", EventCycles),
               Key(ArchX86, Wasm1, "Execution", EventCycles)>>

\* Three (engine, engine_flags) identities, ascending: the first two share
\* the engine and differ in flags, the third shares a prefix with them.
Identities == << <<(<<"U+00E9", "a">>), <<>> >>,
                 <<(<<"U+00E9", "a">>), <<"f">> >>,
                 <<(<<"U+00E9", "b">>), <<>> >> >>

\* The counts one engine may have recorded in one group: none, one (too few
\* for the significance test), all zero, scattered, or all three.
SampleLists == {<<>>, <<2>>, <<0, 0>>, <<1, 2>>, <<3, 3>>}

Series == {<<g, i>> : g \in 1..Len(GroupKeys), i \in 1..Len(Identities)}

SeriesOrder == [n \in 1..(Len(GroupKeys) * Len(Identities)) |->
                  <<((n - 1) \div Len(Identities)) + 1,
                    ((n - 1) % Len(Identities)) + 1>>]

SeriesMeasurements(s, counts) ==
    [j \in 1..Len(counts) |->
        Measurement(GroupKeys[s[1]].arch, Identities[s[2]][1], Identities[s[2]][2],
                    GroupKeys[s[1]].wasm, GroupKeys[s[1]].phase,
                    GroupKeys[s[1]].event, counts[j])]

RECURSIVE Recorded(_, _)
Recorded(f, n) ==
    IF n = 0 THEN <<>>
    ELSE Recorded(f, n - 1) \o SeriesMeasurements(SeriesOrder[n], f[SeriesOrder[n]])

Reverse(s) == [i \in 1..Len(s) |-> s[Len(s) + 1 - i]]

\* Every assignment of counts to the series, recorded in series order or in
\* the opposite order.
MeasurementInputs ==
    UNION {{Recorded(f, Len(SeriesOrder)), Reverse(Recorded(f, Len(SeriesOrder)))} :
              f \in [Series -> SampleLists]}

\* significance_level in hundredths: -0.01, 0.0, 0.05, 1.0, 1.01
SigLevels == {-1, 0, 5, 100, 101}

-----------------------------------------------------------------------------
(* Collaborators of calculate that are not part of the modelled files.     *)

KeyOf(m) == Key(m.arch, m.wasm, m.phase, m.event)

KeyLess(x, y) ==
    \/ StrLess(x.arch, y.arch)
    \/ x.arch = y.arch /\ StrLess(x.wasm, y.wasm)
    \/ x.arch = y.arch /\ x.wasm = y.wasm /\ PhaseRank(x.phase) < PhaseRank(y.phase)
    \/ /\ x.arch = y.arch /\ x.wasm = y.wasm /\ x.phase = y.phase
       /\ StrLess(x.event, y.event)

RECURSIVE SortedKeys(_)
SortedKeys(S) ==
    IF S = {} THEN <<>>
    ELSE LET least == CHOOSE x \in S : \A y \in S \ {x} : KeyLess(x, y)
         IN  <<least>> \o SortedKeys(S \ {least})

\* KeyBuilder::all().engine(false).keys(measurements): one key per distinct
\* (arch, wasm, phase, event), in ascending order.
KeyBuilderKeys(ms) == SortedKeys({KeyOf(ms[i]) : i \in 1..Len(ms)})

\* Key::matches, for a key with arch, wasm, phase and event set.
KeyMatches(key, m) == KeyOf(m) = key

RECURSIVE SumSeq(_)
SumSeq(s) == IF s = <<>> THEN 0 ELSE Head(s) + SumSeq(Tail(s))

\* behrens_fisher::Stats collected from an iterator of f64.
Stats(counts) ==
    [count |-> Len(counts),
     mean |-> IF counts = <<>> THEN NaN ELSE Fin(SumSeq(counts), Len(counts)),
     zero_var |-> \A i, j \in 1..Len(counts) : counts[i] = counts[j]]

Ok(v) == [ok |-> TRUE, value |-> v, kind |-> "none", at |-> "none"]
Err(kind, at) == [ok |-> FALSE, value |-> NaN, kind |-> kind, at |-> at]
NoError == Ok(NaN)

\* behrens_fisher::confidence_interval(confidence, a, b), confidence in
\* hundredths.  The half-width t* x se is 0.0 for two samples without scatter
\* and otherwise some positive value, of which the model keeps 1..MaxHalfWidth.
confidence_interval(confidence, a, b) ==
    LET few == a.count < 2 \/ b.count < 2
        bad == ~(0 < confidence /\ confidence < 100)
    IN  IF few \/ bad
        THEN {Err("InsufficientData", "confidence_interval") : x \in {1} \cap {IF few THEN 1 ELSE 0}}
             \cup {Err("InvalidParameter", "confidence_interval") : x \in {1} \cap {IF bad THEN 1 ELSE 0}}
        ELSE IF a.zero_var /\ b.zero_var
             THEN {Ok(FFromInt(0))}
             ELSE {Ok(FFromInt(h)) : h \in 1..MaxHalfWidth}

-----------------------------------------------------------------------------
(* calculate.                                                              *)

\* The range check with an exclusive lower bound.
SigLevelInRangeExclusive(sl) == 0 < sl /\ sl <= 100

\* ensure!(0.0 <= significance_level && significance_level <= 1.0)
SigLevelInRange(sl) == 0 <= sl /\ sl <= 100

key_measurements(key, ms) == SelectSeq(ms, LAMBDA m : KeyMatches(key, m))

RECURSIVE SortedPairs(_)
SortedPairs(S) ==
    IF S = {} THEN <<>>
    ELSE LET least == CHOOSE x \in S : \A y \in S \ {x} : PairLess(x, y)
         IN  <<least>> \o SortedPairs(S \ {least})

\* The engines in the order of their first measurement, as a Vec would
\* keep them.
RECURSIVE enginesInInputOrder(_)
enginesInInputOrder(kms) ==
    IF kms = <<>> THEN <<>>
    ELSE LET front == enginesInInputOrder(SubSeq(kms, 1, Len(kms) - 1))
             e == engine_and_flags(kms[Len(kms)])
         IN  IF \E i \in 1..Len(front) : front[i] = e THEN front ELSE Append(front, e)

\* engines: BTreeSet<_> of engine_and_flags, as the sequence its iterator yields.
engines(kms) == SortedPairs({engine_and_flags(kms[i]) : i \in 1..Len(kms)})

\* The cardinality check accepting any group of two or more engines.
EnginesOkAtLeastTwo(es) == Len(es) >= 2

\* ensure!(engines.len() == 2)
EnginesOk(es) == Len(es) = 2

\* the counts of one engine, as f64, in input order
CountsOf(kms, engine) ==
    LET sel == SelectSeq(kms, LAMBDA m : engine_and_flags(m) = engine)
    IN  [i \in 1..Len(sel) |-> sel[i].count]

EngineResult(engine, mean) ==
    [engine |-> engine[1], engine_flags |-> engine[2], mean |-> mean]

\* An EffectSize whose arch is filled from the key's wasm.
EffectSizeArchFromWasm(key, a_results, b_results, sl, ci) ==
    [arch |-> key.wasm, wasm |-> key.wasm, phase |-> key.phase, event |-> key.event,
     a_results |-> a_results, b_results |-> b_results,
     significance_level |-> sl, half_width_confidence_interval |-> ci]

EffectSize(key, a_results, b_results, sl, ci) ==
    [arch |-> key.arch, wasm |-> key.wasm, phase |-> key.phase, event |-> key.event,
     a_results |-> a_results, b_results |-> b_results,
     significance_level |-> sl, half_width_confidence_interval |-> ci]

CalcUnchanged == <<effect_sizes, input_order, summaries, entry, output, a_summary,
                   b_summary, sig_in, sig_out, trim_in, trim_out>>

\* Entry of calculate: the range check, then the keys.
CalculateEnter ==
    /\ pc = "calculate"
    /\ \E sl \in SigLevels :
          /\ significance_level' = sl
          /\ IF SigLevelInRange(sl)
             THEN /\ keys' = KeyBuilderKeys(measurements)
                  /\ pc' = "calculate_loop"
                  /\ error' = error
             ELSE /\ keys' = keys
                  /\ pc' = "calculate_err"
                  /\ error' = Err("InvalidParameter", "calculate")
    /\ UNCHANGED <<measurements, results, returned>>
    /\ UNCHANGED CalcUnchanged

\* One iteration of `for key in keys`.
CalculateGroup ==
    /\ pc = "calculate_loop"
    /\ keys # <<>>
    /\ LET key == Head(keys)
           kms == key_measurements(key, measurements)
           es == engines(kms)
       IN  IF ~EnginesOk(es)
           THEN /\ pc' = "calculate_err"
                /\ error' = Err("GroupCardinality", "calculate")
                /\ UNCHANGED <<keys, results>>
           ELSE LET engine_a == es[1]
                    engine_b == es[2]
                    a == Stats(CountsOf(kms, engine_a))
                    b == Stats(CountsOf(kms, engine_b))
                IN  \E ci \in confidence_interval(100 - significance_level, a, b) :
                       IF ci.ok
                       THEN /\ results' = Append(results,
                                   EffectSize(key, EngineResult(engine_a, a.mean),
                                              EngineResult(engine_b, b.mean),
                                              significance_level, ci.value))
                            /\ keys' = Tail(keys)
                            /\ UNCHANGED <<pc, error>>
                       ELSE /\ pc' = "calculate_err"
                            /\ error' = ci
                            /\ UNCHANGED <<keys, results>>
    /\ UNCHANGED <<measurements, significance_level, returned>>
    /\ UNCHANGED CalcUnchanged

\* Ok(results)
CalculateReturn ==
    /\ pc = "calculate_loop"
    /\ keys = <<>>
    /\ pc' = "calculate_ok"
    /\ returned' = results
    /\ UNCHANGED <<measurements, significance_level, keys, results, error>>
    /\ UNCHANGED CalcUnchanged

-----------------------------------------------------------------------------
(* write.                                                                  *)

Summary(arch, engine, wasm, phase, event, mean) ==
    [arch |-> arch, engine |-> engine[1], engine_flags |-> engine[2],
     wasm |-> wasm, phase |-> phase, event |-> event,
     min |-> mean.n \div mean.d, max |-> -((-mean.n) \div mean.d), mean |-> mean]

SummaryLess(x, y) ==
    \/ KeyLess(KeyOf(x), KeyOf(y))
    \/ KeyOf(x) = KeyOf(y) /\ PairLess(engine_and_flags(x), engine_and_flags(y))

RECURSIVE SortedSummaries(_)
SortedSummaries(S) ==
    IF S = {} THEN <<>>
    ELSE LET least == CHOOSE x \in S : \A y \in S \ {x} : SummaryLess(x, y)
         IN  <<least>> \o SortedSummaries(S \ {least})

\* The summaries computed upstream for the engines of the effect sizes: one
\* per (arch, engine, engine_flags, wasm, phase, event).
Summarize(ess) ==
    SortedSummaries(
        {Summary(ess[i].arch, engine_and_flags(ess[i].a_results), ess[i].wasm,
                 ess[i].phase, ess[i].event,
                 (CHOOSE e \in {ess[j] : j \in 1..Len(ess)} :
                     /\ KeyOf(e) = KeyOf(ess[i])
                     /\ engine_and_flags(e.a_results) = engine_and_flags(ess[i].a_results)
                 ).a_results.mean) : i \in 1..Len(ess)}
        \cup
        {Summary(ess[i].arch, engine_and_flags(ess[i].b_results), ess[i].wasm,
                 ess[i].phase, ess[i].event,
                 (CHOOSE e \in {ess[j] : j \in 1..Len(ess)} :
                     /\ KeyOf(e) = KeyOf(ess[i])
                     /\ engine_and_flags(e.b_results) = engine_and_flags(ess[i].b_results)
                 ).b_results.mean) : i \in 1..Len(ess)})

Without(s, i) == [j \in 1..(Len(s) - 1) |-> IF j < i THEN s[j] ELSE s[j + 1]]

\* The summaries write may be handed: all of them in either order, or all
\* but one.
SummaryInputs(ess) ==
    LET all == Summarize(ess)
    IN  {all, Reverse(all)} \cup {Without(all, i) : i \in 1..Len(all)}

\* The larger of the two directional speed-ups.
speedup(x) == FMax(a_speed_up_over_b(x), b_speed_up_over_a(x))

\* bool::cmp(p, q)
BoolCmp(p, q) ==
    IF p = q THEN "Equal" ELSE IF q THEN "Less" ELSE "Greater"

\* The closure with the speed-ups compared the other way round.
SortCompareAscending(x, y) ==
    LET by_significance == BoolCmp(is_significant(y), is_significant(x))
    IN  IF by_significance # "Equal"
        THEN by_significance
        ELSE PartialCmp(speedup(x), speedup(y))

\* The closure given to sort_by; "None" stands for the unwrap of a
\* partial_cmp that has no answer.
SortCompare(x, y) ==
    LET by_significance == BoolCmp(is_significant(y), is_significant(x))
    IN  IF by_significance # "Equal"
        THEN by_significance
        ELSE PartialCmp(speedup(y), speedup(x))

Sorted(v) == [panic |-> FALSE, v |-> v]
Panicked == [panic |-> TRUE, v |-> <<>>]

\* Insert x into the sorted vector v, from its tail.
RECURSIVE InsertTail(_, _)
InsertTail(v, x) ==
    IF v = <<>> THEN Sorted(<<x>>)
    ELSE LET last == v[Len(v)]
             c == SortCompare(x, last)
         IN  IF c = "None" THEN Panicked
             ELSE IF c = "Less"
                  THEN LET rest == InsertTail(SubSeq(v, 1, Len(v) - 1), x)
                       IN  IF rest.panic THEN Panicked ELSE Sorted(Append(rest.v, last))
                  ELSE Sorted(Append(v, x))

\* <[T]>::sort_by: a stable sort; an insertion sort at these lengths.
RECURSIVE sort_by(_)
sort_by(v) ==
    IF v = <<>> THEN Sorted(<<>>)
    ELSE LET front == sort_by(SubSeq(v, 1, Len(v) - 1))
         IN  IF front.panic THEN Panicked ELSE InsertTail(front.v, v[Len(v)])

\* Byte offset of the i-th character of s.
RECURSIVE ByteOffset(_, _)
ByteOffset(s, i) == IF i <= 1 THEN 0 ELSE ByteOffset(s, i - 1) + Utf8Len(s[i - 1])

\* The prefix length counted in characters instead of bytes.
end_of_shared_prefix_chars(a, b) ==
    LET differ == {i \in 1..Min(Len(a), Len(b)) : a[i] # b[i]}
    IN  IF differ = {} THEN 0
        ELSE (CHOOSE i \in differ : \A j \in differ : i <= j) - 1

\* char_indices().zip(..).find_map(..).unwrap_or(0): the byte offset of the
\* first position at which the two strings differ, 0 when there is none.
end_of_shared_prefix(a, b) ==
    LET differ == {i \in 1..Min(Len(a), Len(b)) : a[i] # b[i]}
    IN  IF differ = {} THEN 0
        ELSE ByteOffset(a, CHOOSE i \in differ : \A j \in differ : i <= j)

\* &s[from..]: the characters at byte offset `from` and after; the slice
\* panics when `from` is inside a character or past the end.
SliceFrom(s, from) ==
    IF \E i \in 1..(Len(s) + 1) : ByteOffset(s, i) = from
    THEN Sorted(SelectSeq([i \in 1..Len(s) |-> <<ByteOffset(s, i), s[i]>>],
                          LAMBDA p : p[1] >= from))
    ELSE Panicked

Chars(ps) == [i \in 1..Len(ps) |-> ps[i][2]]

\* a_engine and b_engine of one entry
TrimmedEngines(a, b) ==
    LET at == end_of_shared_prefix(a, b)
    IN  <<SliceFrom(a, at), SliceFrom(b, at)>>

Line(kind, n, data) == [kind |-> kind, entry |-> n, data |-> data]

\* "{engine}{space}{flags}"
EngineName(engine, flags) ==
    engine \o (IF engine # <<>> /\ flags # <<>> THEN <<" ">> ELSE <<>>) \o flags

\* The lines of one entry up to the summaries (lines 104-173).
EntryLines(n, es, a_engine, b_engine, sl) ==
    <<Line("blank", n, <<>>),
      Line("header", n, <<es.phase, es.event, es.wasm>>),
      Line("blank", n, <<>>)>>
    \o
    (IF is_significant(es)
     THEN LET swap == FGt(es.a_results.mean, es.b_results.mean)
              fast_results == IF swap THEN es.b_results ELSE es.a_results
              slow_results == IF swap THEN es.a_results ELSE es.b_results
              fast_engine == IF swap THEN b_engine ELSE a_engine
              slow_engine == IF swap THEN a_engine ELSE b_engine
              ratio == FDiv(slow_results.mean, fast_results.mean)
              ratio_ci == FDiv(es.half_width_confidence_interval, fast_results.mean)
          IN  <<Line("delta", n,
                     <<FSub(slow_results.mean, fast_results.mean),
                       FAbs(es.half_width_confidence_interval), 100 - sl>>),
                Line("blank", n, <<>>),
                Line("faster", n,
                     <<EngineName(fast_engine, fast_results.engine_flags),
                       FSub(ratio, ratio_ci), FAdd(ratio, ratio_ci),
                       EngineName(slow_engine, slow_results.engine_flags)>>)>>
     ELSE <<Line("no difference", n, <<>>)>>)
    \o <<Line("blank", n, <<>>)>>

\* get_summary: the first summary with the engine, flags, wasm, phase and
\* event asked for; <<>> when find yields None.
get_summary(ss, engine, engine_flags, wasm, phase, event) ==
    LET hits == {i \in 1..Len(ss) :
                    /\ ss[i].engine = engine
                    /\ ss[i].engine_flags = engine_flags
                    /\ ss[i].wasm = wasm
                    /\ ss[i].phase = phase
                    /\ ss[i].event = event}
    IN  IF hits = {} THEN <<>>
        ELSE <<ss[CHOOSE i \in hits : \A j \in hits : i <= j]>>

ContextLine(n, summary, engine) ==
    Line("context", n, <<summary.min, summary.mean, summary.max, engine>>)

WriteUnchanged == <<measurements, keys, results, returned, sig_in, sig_out,
                    trim_in, trim_out>>

\* The caller hands calculate's result and the summaries to write.
CallWrite ==
    /\ pc = "calculate_ok"
    /\ effect_sizes' = returned
    /\ input_order' = returned
    /\ summaries' \in SummaryInputs(returned)
    /\ pc' = "write"
    /\ UNCHANGED <<significance_level, entry, output, a_summary, b_summary, error>>
    /\ UNCHANGED WriteUnchanged

\* effect_sizes.sort_by(..)
WriteSort ==
    /\ pc = "write"
    /\ LET sorted == sort_by(effect_sizes)
       IN  IF sorted.panic
           THEN /\ pc' = "write_panic"
                /\ error' = Err("Panic", "sort_by")
                /\ UNCHANGED <<effect_sizes, entry>>
           ELSE /\ pc' = "write_entry"
                /\ effect_sizes' = sorted.v
                /\ entry' = 1
                /\ error' = error
    /\ UNCHANGED <<significance_level, input_order, summaries, output, a_summary,
                   b_summary>>
    /\ UNCHANGED WriteUnchanged

\* One entry, up to the first get_summary.
WriteEntry ==
    /\ pc = "write_entry"
    /\ entry <= Len(effect_sizes)
    /\ LET es == effect_sizes[entry]
           trimmed == TrimmedEngines(es.a_results.engine, es.b_results.engine)
       IN  IF trimmed[1].panic \/ trimmed[2].panic
           THEN /\ pc' = "write_panic"
                /\ error' = Err("Panic", "slice")
                /\ output' = output \o SubSeq(EntryLines(entry, es, <<>>, <<>>,
                                                         significance_level), 1, 3)
           ELSE /\ pc' = "write_a_summary"
                /\ error' = error
                /\ output' = output \o EntryLines(entry, es, Chars(trimmed[1].v),
                                                  Chars(trimmed[2].v), significance_level)
    /\ UNCHANGED <<significance_level, effect_sizes, input_order, summaries, entry,
                   a_summary, b_summary>>
    /\ UNCHANGED WriteUnchanged

\* get_summary for engine A, and its context line.
WriteSummaryA ==
    /\ pc = "write_a_summary"
    /\ LET es == effect_sizes[entry]
           found == get_summary(summaries, es.a_results.engine, es.a_results.engine_flags,
                                es.wasm, es.phase, es.event)
           a_engine == Chars(TrimmedEngines(es.a_results.engine, es.b_results.engine)[1].v)
       IN  IF found = <<>>
           THEN /\ pc' = "write_panic"
                /\ error' = Err("Panic", "get_summary")
                /\ UNCHANGED <<output, a_summary>>
           ELSE /\ pc' = "write_b_summary"
                /\ error' = error
                /\ a_summary' = Append(a_summary, found[1])
                /\ output' = Append(output, ContextLine(entry, found[1], a_engine))
    /\ UNCHANGED <<significance_level, effect_sizes, input_order, summaries, entry,
                   b_summary>>
    /\ UNCHANGED WriteUnchanged

\* get_summary for engine B, its context line, and on to the next entry.
WriteSummaryB ==
    /\ pc = "write_b_summary"
    /\ LET es == effect_sizes[entry]
           found == get_summary(summaries, es.b_results.engine, es.b_results.engine_flags,
                                es.wasm, es.phase, es.event)
           b_engine == Chars(TrimmedEngines(es.a_results.engine, es.b_results.engine)[2].v)
       IN  IF found = <<>>
           THEN /\ pc' = "write_panic"
                /\ error' = Err("Panic", "get_summary")
                /\ UNCHANGED <<output, b_summary, entry>>
           ELSE /\ pc' = "write_entry"
                /\ error' = error
                /\ b_summary' = Append(b_summary, found[1])
                /\ output' = Append(output, ContextLine(entry, found[1], b_engine))
                /\ entry' = entry + 1
    /\ UNCHANGED <<significance_level, effect_sizes, input_order, summaries, a_summary>>
    /\ UNCHANGED WriteUnchanged

\* Ok(())
WriteReturn ==
    /\ pc = "write_entry"
    /\ entry > Len(effect_sizes)
    /\ pc' = "write_ok"
    /\ UNCHANGED <<significance_level, effect_sizes, input_order, summaries, entry,
                   output, a_summary, b_summary, error>>
    /\ UNCHANGED WriteUnchanged

-----------------------------------------------------------------------------
(* The pipeline: calculate, then write on what it returned.                *)


Init ==
    /\ measurements \in MeasurementInputs
    /\ significance_level = 5
    /\ pc = "calculate"
    /\ keys = <<>>
    /\ results = <<>>
    /\ returned = <<>>
    /\ error = NoError
    /\ effect_sizes = <<>>
    /\ input_order = <<>>
    /\ summaries = <<>>
    /\ entry = 0
    /\ output = <<>>
    /\ a_summary = <<>>
    /\ b_summary = <<>>
    /\ sig_in = <<>>
    /\ sig_out = FALSE
    /\ trim_in = <<>>
    /\ trim_out = <<>>

Next ==
    \/ CalculateEnter
    \/ CalculateGroup
    \/ CalculateReturn
    \/ CallWrite
    \/ WriteSort
    \/ WriteEntry
    \/ WriteSummaryA
    \/ WriteSummaryB
    \/ WriteReturn

Spec == Init /\ [][Next]_vars

-----------------------------------------------------------------------------
(* write on effect sizes of the caller's own making.                       *)

Sample(key, a_mean, b_mean, hw) ==
    EffectSize(key, EngineResult(Identities[1], FFromInt(a_mean)),
               EngineResult(Identities[3], FFromInt(b_mean)), 5, FFromInt(hw))

\* Significant and insignificant entries (half-width 0 or 5), with speed-ups
\* NaN, 2, 2, 3, 3, 2 and 2.
EffectSizeSamples ==
    {Sample(GroupKeys[1], 0, 0, 0), Sample(GroupKeys[1], 1, 2, 0),
     Sample(GroupKeys[2], 2, 1, 0), Sample(GroupKeys[1], 1, 3, 5),
     Sample(GroupKeys[2], 3, 1, 0), Sample(GroupKeys[1], 1, 2, 5),
     Sample(GroupKeys[2], 1, 2, 0)}

EffectSizeInputs ==
    UNION {[1..n -> EffectSizeSamples] : n \in 0..MaxEffects}

InitWrite ==
    /\ effect_sizes \in EffectSizeInputs
    /\ input_order = effect_sizes
    /\ summaries \in SummaryInputs(effect_sizes)
    /\ significance_level = 5
    /\ pc = "write"
    /\ measurements = <<>>
    /\ keys = <<>>
    /\ results = <<>>
    /\ returned = <<>>
    /\ error = NoError
    /\ entry = 0
    /\ output = <<>>
    /\ a_summary = <<>>
    /\ b_summary = <<>>
    /\ sig_in = <<>>
    /\ sig_out = FALSE
    /\ trim_in = <<>>
    /\ trim_out = <<>>

NextWrite ==
    \/ WriteSort
    \/ WriteEntry
    \/ WriteSummaryA
    \/ WriteSummaryB
    \/ WriteReturn

SpecWrite == InitWrite /\ [][NextWrite]_vars

-----------------------------------------------------------------------------
(* EffectSize::is_significant on its own.                                  *)

Means == {Fin(n, d) : n \in 0..MaxNumerator, d \in 1..2}
HalfWidths == {Fin(n, d) : n \in (-MaxNumerator)..MaxNumerator, d \in 1..2}

IsSignificantInputs ==
    {EffectSize(GroupKeys[1], EngineResult(Identities[1], a),
                EngineResult(Identities[3], b), 5, h) :
        a \in Means, b \in Means, h \in HalfWidths}

InitSig ==
    /\ sig_in \in IsSignificantInputs
    /\ sig_out = FALSE
    /\ pc = "is_significant"
    /\ measurements = <<>>
    /\ significance_level = 5
    /\ keys = <<>>
    /\ results = <<>>
    /\ returned = <<>>
    /\ error = NoError
    /\ effect_sizes = <<>>
    /\ input_order = <<>>
    /\ summaries = <<>>
    /\ entry = 0
    /\ output = <<>>
    /\ a_summary = <<>>
    /\ b_summary = <<>>
    /\ trim_in = <<>>
    /\ trim_out = <<>>

IsSignificantCall ==
    /\ pc = "is_significant"
    /\ sig_out' = is_significant(sig_in)
    /\ pc' = "is_significant_done"
    /\ UNCHANGED <<measurements, significance_level, keys, results, returned, error,
                   effect_sizes, input_order, summaries, entry, output, a_summary,
                   b_summary, sig_in, trim_in, trim_out>>

NextSig == IsSignificantCall

SpecSig == InitSig /\ [][NextSig]_vars

-----------------------------------------------------------------------------
(* The prefix trimming of write on its own.                                *)

Strings == UNION {[1..n -> Alphabet] : n \in 0..MaxStrLen}

InitTrim ==
    /\ trim_in \in Strings \X Strings
    /\ trim_out = <<>>
    /\ pc = "trim"
    /\ measurements = <<>>
    /\ significance_level = 5
    /\ keys = <<>>
    /\ results = <<>>
    /\ returned = <<>>
    /\ error = NoError
    /\ effect_sizes = <<>>
    /\ input_order = <<>>
    /\ summaries = <<>>
    /\ entry = 0
    /\ output = <<>>
    /\ a_summary = <<>>
    /\ b_summary = <<>>
    /\ sig_in = <<>>
    /\ sig_out = FALSE

TrimCall ==
    /\ pc = "trim"
    /\ LET trimmed == TrimmedEngines(trim_in[1], trim_in[2])
       IN  trim_out' = <<[panic |-> trimmed[1].panic, name |-> Chars(trimmed[1].v)],
                         [panic |-> trimmed[2].panic, name |-> Chars(trimmed[2].v)]>>
    /\ pc' = "trim_done"
    /\ UNCHANGED <<measurements, significance_level, keys, results, returned, error,
                   effect_sizes, input_order, summaries, entry, output, a_summary,
                   b_summary, sig_in, sig_out, trim_in>>

NextTrim == TrimCall

SpecTrim == InitTrim /\ [][NextTrim]_vars

-----------------------------------------------------------------------------
(* Properties.                                                             *)

GroupsOf(ms) == {KeyOf(ms[i]) : i \in 1..Len(ms)}

\* The distinct (engine, engine_flags) of the measurements of group k.
IdentitiesIn(ms, k) ==
    {<<ms[i].engine, ms[i].engine_flags>> : i \in {j \in 1..Len(ms) : KeyOf(ms[j]) = k}}

\* The positions of the measurements of group k recorded for identity id.
PositionsOf(ms, k, id) ==
    {i \in 1..Len(ms) :
        /\ KeyOf(ms[i]) = k
        /\ ms[i].engine = id[1]
        /\ ms[i].engine_flags = id[2]}

AllGroupsPairwise == \A k \in GroupsOf(measurements) :
                         Cardinality(IdentitiesIn(measurements, k)) = 2

CalculateRunning == pc \in {"calculate", "calculate_loop"}

CalculateFailed == pc = "calculate_err"

\* C1: whenever some group of measurements sharing (arch, wasm, phase,
\* event) holds a number of distinct (engine, engine_flags) other than two,
\* calculate does not return a result: the call ends in an error, and no
\* EffectSize, of that group or of any other, reaches the caller.
C1_CardinalityFailsWholeCall ==
    ~AllGroupsPairwise =>
        /\ CalculateRunning \/ CalculateFailed
        /\ returned = <<>>
        /\ effect_sizes = <<>>

\* C1 witness: the call has failed on a group of three identities after a
\* well-formed group was processed and its EffectSize pushed.
C1_Witness ==
    /\ CalculateFailed
    /\ error = Err("GroupCardinality", "calculate")
    /\ Len(results) = 1
    /\ Cardinality(IdentitiesIn(measurements, Head(keys))) = 3

\* The EffectSizes r are exactly one per group of the measurements, each
\* carrying the arch, wasm, phase and event of a group and the two
\* identities of that group.
OnePerGroup(r) ==
    /\ \A k \in GroupsOf(measurements) :
          Cardinality({i \in 1..Len(r) : KeyOf(r[i]) = k}) = 1
    /\ \A i \in 1..Len(r) :
          /\ KeyOf(r[i]) \in GroupsOf(measurements)
          /\ {<<r[i].a_results.engine, r[i].a_results.engine_flags>>,
              <<r[i].b_results.engine, r[i].b_results.engine_flags>>}
                = IdentitiesIn(measurements, KeyOf(r[i]))

\* C2 as stated: for every significance_level in [0, 1], bounds included,
\* and measurements whose groups all hold exactly two identities, calculate
\* succeeds with exactly one EffectSize per group.
C2_Original ==
    (/\ ~CalculateRunning
     /\ 0 <= significance_level /\ significance_level <= 100
     /\ AllGroupsPairwise)
    => (~CalculateFailed /\ OnePerGroup(returned))

EnoughSamples == \A k \in GroupsOf(measurements) :
                     \A id \in IdentitiesIn(measurements, k) :
                         Cardinality(PositionsOf(measurements, k, id)) >= 2

\* C2 amended: for every significance_level strictly between 0 and 1 and
\* measurements whose groups all hold exactly two identities with at least
\* two measurements each, calculate succeeds and returns exactly one
\* EffectSize per (arch, wasm, phase, event) present, carrying the fields of
\* its group.
C2_OnePerGroup ==
    (/\ ~CalculateRunning
     /\ 0 < significance_level /\ significance_level < 100
     /\ AllGroupsPairwise
     /\ EnoughSamples)
    => (~CalculateFailed /\ OnePerGroup(returned))

\* C2 witness: calculate has returned the EffectSizes of two groups.
C2_Witness ==
    /\ pc = "calculate_ok"
    /\ Cardinality(GroupsOf(measurements)) = 2
    /\ Len(returned) = 2

OutOfRange == significance_level < 0 \/ significance_level > 100

\* C3 as stated: the invalid-parameter error is returned exactly when
\* significance_level is below 0.0 or above 1.0, and then before any
\* grouping and without any EffectSize.
C3_Original ==
    ~CalculateRunning =>
        /\ (error.kind = "InvalidParameter") <=> OutOfRange
        /\ OutOfRange => (CalculateFailed /\ keys = <<>> /\ results = <<>>
                          /\ returned = <<>>)

\* C3 amended: calculate's own range check fails exactly when
\* significance_level is below 0.0 or above 1.0, before any grouping and
\* without any EffectSize, whatever the measurements; for a
\* significance_level inside [0, 1] an invalid-parameter error arises only
\* at the bounds 0.0 and 1.0, from the confidence-interval computation.
C3_RangeCheckFirst ==
    ~CalculateRunning =>
        /\ (error = Err("InvalidParameter", "calculate")) <=> OutOfRange
        /\ OutOfRange => (CalculateFailed /\ keys = <<>> /\ results = <<>>
                          /\ returned = <<>>)
        /\ (error.kind = "InvalidParameter" /\ ~OutOfRange) =>
              (significance_level \in {0, 100} /\ error.at = "confidence_interval")

\* C3 witness: the range check has failed on measurements that also hold a
\* group violating the two-engine rule.
C3_Witness ==
    /\ CalculateFailed
    /\ error = Err("InvalidParameter", "calculate")
    /\ significance_level = 101
    /\ measurements # <<>>
    /\ ~AllGroupsPairwise

\* Lexicographic order of the code points, read off the heads.
RECURSIVE LexLess(_, _)
LexLess(s, t) ==
    IF t = <<>> THEN FALSE
    ELSE IF s = <<>> THEN TRUE
    ELSE IF CodePoint(Head(s)) # CodePoint(Head(t))
         THEN CodePoint(Head(s)) < CodePoint(Head(t))
         ELSE LexLess(Tail(s), Tail(t))

RECURSIVE SumCounts(_, _)
SumCounts(ms, P) ==
    IF P = {} THEN 0
    ELSE LET i == CHOOSE x \in P : TRUE
         IN  ms[i].count + SumCounts(ms, P \ {i})

\* r.mean is the mean of the counts of group k recorded for r's identity.
MeanOfGroup(r, k) ==
    LET P == PositionsOf(measurements, k, <<r.engine, r.engine_flags>>)
    IN  /\ P # {}
        /\ r.mean.k = "fin"
        /\ r.mean.n * Cardinality(P) = SumCounts(measurements, P) * r.mean.d

\* C4: in every EffectSize of calculate, (a_results.engine,
\* a_results.engine_flags) is strictly below (b_results.engine,
\* b_results.engine_flags) in lexicographic order, whatever the order of the
\* measurements, and each mean is the mean of the group's counts of that
\* identity.
C4_EngineOrder ==
    \A i \in 1..Len(results) :
        LET es == results[i]
        IN  /\ \/ LexLess(es.a_results.engine, es.b_results.engine)
               \/ /\ es.a_results.engine = es.b_results.engine
                  /\ LexLess(es.a_results.engine_flags, es.b_results.engine_flags)
            /\ MeanOfGroup(es.a_results, KeyOf(es))
            /\ MeanOfGroup(es.b_results, KeyOf(es))

\* C4 witness: calculate has returned an EffectSize for measurements whose
\* first record belongs to engine B of its group, with different means.
C4_Witness ==
    /\ pc = "calculate_ok"
    /\ \E i \in 1..Len(returned) :
          /\ KeyOf(returned[i]) = KeyOf(measurements[1])
          /\ returned[i].b_results.engine = measurements[1].engine
          /\ returned[i].b_results.engine_flags = measurements[1].engine_flags
          /\ ~FEq(returned[i].a_results.mean, returned[i].b_results.mean)

\* |a - b| > |h| on the fractions a, b, h, by squares of integers.
DiffExceeds(a, b, h) ==
    LET diff == a.n * b.d - b.n * a.d
    IN  (diff * diff) * (h.d * h.d) > (h.n * h.n) * ((a.d * b.d) * (a.d * b.d))

WithHalfWidth(es, h) == [es EXCEPT !.half_width_confidence_interval = h]

Swapped(es) == [es EXCEPT !.a_results = es.b_results, !.b_results = es.a_results]

\* C5: is_significant is true exactly when |a_results.mean - b_results.mean|
\* exceeds |half_width_confidence_interval|: a difference equal to the
\* half-width is not significant, the sign of the half-width does not
\* matter, and neither does which engine is A.
C5_SignificantIffExceeds ==
    pc = "is_significant_done" =>
        LET a == sig_in.a_results.mean
            b == sig_in.b_results.mean
            h == sig_in.half_width_confidence_interval
        IN  /\ sig_out <=> DiffExceeds(a, b, h)
            /\ sig_out = is_significant(WithHalfWidth(sig_in, FNeg(h)))
            /\ sig_out = is_significant(Swapped(sig_in))

\* C5 witness: is_significant has answered false for a mean difference
\* that equals a negative, non-zero half-width in absolute value.
C5_Witness ==
    /\ pc = "is_significant_done"
    /\ ~sig_out
    /\ sig_in.half_width_confidence_interval.n < 0
    /\ LET a == sig_in.a_results.mean
           b == sig_in.b_results.mean
           h == sig_in.half_width_confidence_interval
       IN  (b.n * a.d - a.n * b.d) * h.d = (-h.n) * (a.d * b.d)

Orderings(n) == {f \in [1..n -> 1..n] : \A i, j \in 1..n : f[i] = f[j] => i = j}

\* The larger speed-up as a fraction of the means, over a common positive
\* denominator: max(a/b, b/a) = max(a, b)^2 / (a * b) for positive means.
Larger(x, y) == IF x.n * y.d >= y.n * x.d THEN x ELSE y

SpeedupNoLess(x, y) ==
    LET xa == x.a_results.mean
        xb == x.b_results.mean
        ya == y.a_results.mean
        yb == y.b_results.mean
        xm == Larger(xa, xb)
        ym == Larger(ya, yb)
    IN  (xm.n * xm.n) * (xa.d * xb.d) * (ya.n * yb.n) * (ym.d * ym.d)
          >= (ym.n * ym.n) * (ya.d * yb.d) * (xa.n * xb.n) * (xm.d * xm.d)

Significant(x) ==
    DiffExceeds(x.a_results.mean, x.b_results.mean, x.half_width_confidence_interval)

SameKeys(x, y) ==
    /\ Significant(x) = Significant(y)
    /\ SpeedupNoLess(x, y)
    /\ SpeedupNoLess(y, x)

HeaderLines == SelectSeq(output, LAMBDA l : l.kind = "header")

\* C6: the entries of the report are written in an order that is a
\* permutation of the input effect sizes with every significant entry before
\* every insignificant one, the larger speed-up non-increasing within each
\* of the two blocks, and entries equal on both keys in their input order.
C6_ReportOrder ==
    /\ Len(HeaderLines) <= Len(effect_sizes)
    /\ \A n \in 1..Len(HeaderLines) :
          /\ HeaderLines[n].entry = n
          /\ HeaderLines[n].data = <<effect_sizes[n].phase, effect_sizes[n].event,
                                    effect_sizes[n].wasm>>
    /\ pc = "write_ok" => Len(HeaderLines) = Len(effect_sizes)
    /\ output # <<>> =>
          /\ Len(effect_sizes) = Len(input_order)
          /\ \E f \in Orderings(Len(input_order)) :
                /\ \A i \in 1..Len(input_order) : effect_sizes[i] = input_order[f[i]]
                /\ \A i, j \in 1..Len(input_order) :
                      (i < j /\ SameKeys(effect_sizes[i], effect_sizes[j]))
                          => f[i] < f[j]
          /\ \A i, j \in 1..Len(effect_sizes) :
                i < j =>
                    /\ Significant(effect_sizes[j]) => Significant(effect_sizes[i])
                    /\ Significant(effect_sizes[i]) = Significant(effect_sizes[j])
                          => SpeedupNoLess(effect_sizes[i], effect_sizes[j])

\* C6 witness: a report of three entries is complete; the input held an
\* insignificant entry before two significant ones that differ and tie on
\* both keys, and the sort moved the two ahead of it in their input order.
C6_Witness ==
    /\ pc = "write_ok"
    /\ Len(input_order) = 3
    /\ Len(HeaderLines) = 3
    /\ ~Significant(input_order[1])
    /\ Significant(input_order[2]) /\ Significant(input_order[3])
    /\ input_order[2] # input_order[3]
    /\ SameKeys(input_order[2], input_order[3])
    /\ effect_sizes = <<input_order[2], input_order[3], input_order[1]>>

\* Some side of entry es has no summary with its engine, flags, wasm, phase
\* and event.
LacksSummary(es) ==
    \E r \in {es.a_results, es.b_results} :
        \A i \in 1..Len(summaries) :
            ~(/\ summaries[i].engine = r.engine
              /\ summaries[i].engine_flags = r.engine_flags
              /\ summaries[i].wasm = es.wasm
              /\ summaries[i].phase = es.phase
              /\ summaries[i].event = es.event)

\* C7: when an entry has no matching Summary for engine A or engine B,
\* write ends by returning a MissingSummary error with nothing written to
\* the output: no header, delta or context line of any entry.
C7_MissingSummaryNoPartialReport ==
    (/\ pc \in {"write_ok", "write_err", "write_panic"}
     /\ error.at # "sort_by"
     /\ \E i \in 1..Len(effect_sizes) : LacksSummary(effect_sizes[i]))
    => (/\ pc = "write_err"
        /\ error.kind = "MissingSummary"
        /\ output = <<>>)

\* C8: on every list of effect sizes calculate returns, the comparison write
\* sorts by is defined for every pair it compares, entries with a zero mean
\* included, so the sort completes without aborting.
C8_SortNeverAborts ==
    (returned = input_order /\ error.at = "sort_by") => pc # "write_panic"

\* Length of the longest common prefix of a and b.
RECURSIVE CommonPrefix(_, _)
CommonPrefix(a, b) ==
    IF a = <<>> \/ b = <<>> \/ Head(a) # Head(b) THEN 0
    ELSE 1 + CommonPrefix(Tail(a), Tail(b))

\* C9: both engine strings are displayed with the same leading part
\* removed: their longest common prefix when they differ at some position
\* (both displayed names are then non-empty and start differently), and
\* nothing when they do not (equal strings, or one a prefix of the other).
C9_SharedPrefixTrimmed ==
    pc = "trim_done" =>
        LET a == trim_in[1]
            b == trim_in[2]
            p == CommonPrefix(a, b)
        IN  /\ ~trim_out[1].panic /\ ~trim_out[2].panic
            /\ IF p < Len(a) /\ p < Len(b)
               THEN /\ trim_out[1].name = SubSeq(a, p + 1, Len(a))
                    /\ trim_out[2].name = SubSeq(b, p + 1, Len(b))
                    /\ trim_out[1].name # <<>> /\ trim_out[2].name # <<>>
                    /\ Head(trim_out[1].name) # Head(trim_out[2].name)
               ELSE /\ trim_out[1].name = a
                    /\ trim_out[2].name = b

\* C9 witness: two strings that share a prefix with a two-byte character and
\* then differ have been trimmed.
C9_Witness ==
    /\ pc = "trim_done"
    /\ Len(trim_in[1]) = 3 /\ Len(trim_in[2]) = 2
    /\ trim_in[1][1] = "U+00E9" /\ trim_in[2][1] = "U+00E9"
    /\ trim_in[1][2] # trim_in[2][2]
    /\ Len(trim_out[1].name) = 2

UniqueSummaries ==
    \A i, j \in 1..Len(summaries) :
        (/\ summaries[i].arch = summaries[j].arch
         /\ summaries[i].engine = summaries[j].engine
         /\ summaries[i].engine_flags = summaries[j].engine_flags
         /\ summaries[i].wasm = summaries[j].wasm
         /\ summaries[i].phase = summaries[j].phase
         /\ summaries[i].event = summaries[j].event) => i = j

\* Every entry has a Summary of its own arch for engine A and for engine B.
CompleteSummaries ==
    \A n \in 1..Len(effect_sizes) :
        \A r \in {effect_sizes[n].a_results, effect_sizes[n].b_results} :
            \E i \in 1..Len(summaries) :
                /\ summaries[i].arch = effect_sizes[n].arch
                /\ summaries[i].engine = r.engine
                /\ summaries[i].engine_flags = r.engine_flags
                /\ summaries[i].wasm = effect_sizes[n].wasm
                /\ summaries[i].phase = effect_sizes[n].phase
                /\ summaries[i].event = effect_sizes[n].event

\* C10: with at most one Summary per (arch, engine, engine_flags, wasm,
\* phase, event), the summaries behind the two context lines of an entry are
\* those of the entry's own arch, also when the same engine, wasm, phase and
\* event occur under more than one arch.
C10_ContextLinesOfOwnArch ==
    (UniqueSummaries /\ CompleteSummaries) =>
        /\ \A i \in 1..Len(a_summary) : a_summary[i].arch = effect_sizes[i].arch
        /\ \A i \in 1..Len(b_summary) : b_summary[i].arch = effect_sizes[i].arch

=============================================================================
